---- MODULE Spec2Model ----
(***************************************************************************)
(* python_tauri: the bridge between the Tauri native shell and the Python  *)
(* host.  The model covers the process-wide registry (mod globals), the    *)
(* host-facing TauriApp operations, startup (setup_app), the command       *)
(* dispatch bridge (handle_py_command), the event relay (the closure       *)
(* passed to app.listen) and the interpreter execution lock (the GIL).     *)
(***************************************************************************)
EXTENDS Integers, Sequences, FiniteSets, TLC

(***************************************************************************)
(* Bounds of the model.                                                    *)
(***************************************************************************)
\* host-facing TauriApp calls made in one behaviour (all threads together)
MaxApiCalls == 2
\* command invocations the webview sends in one behaviour
MaxDispatch == 2
\* events received on the relay channel in one behaviour
MaxEvents == 2
\* how deep the host values given to pyany_to_json_value are nested
MaxDepth == 2

(***************************************************************************)
(* Threads.  "main" is the Python thread that calls TauriApp.run and then  *)
(* drives the native loop; "py2" is a second Python thread; "worker" is a  *)
(* native thread of the shell that never runs Python of its own.           *)
(***************************************************************************)
Threads == {"main", "py2", "worker"}
PyThreads == {"main", "py2"}
NoThread == "nobody"

\* Option<T>: the absent value; a present value is the value itself
None == "None"

(***************************************************************************)
(* Host objects.  A command handler is a host callable; HName gives what   *)
(* getattr(handler, "__name__").extract::<String>() returns, None when the *)
(* attribute is missing or is not a string.                                *)
(***************************************************************************)
Handlers == {"h1", "h2", "h3", "hx"}
HName(h) ==
    CASE h = "h1" -> "a"
      [] h = "h2" -> "a"
      [] h = "h3" -> "b"
      [] OTHER    -> None
CommandNames == {"a", "b", "c"}
ReadyCallbacks == {"r1", "r2"}
ListenerCallbacks == {"l1", "l2"}
FrontendDirs == {"dist"}
TheAppHandle == "handle"

\* the handler lists a register_commands call is given
HandlerLists == { <<"h1">>, <<"h2">>, <<"h3">>, <<"h3", "hx", "h1">> }

(***************************************************************************)
(* serde_json::Value and the host values a callback returns.               *)
(***************************************************************************)
JNull == [kind |-> "Null"]
JBool(b) == [kind |-> "Bool", v |-> b]
JNum(n) == [kind |-> "Number", v |-> n]
JStr(s) == [kind |-> "String", v |-> s]
JArr(s) == [kind |-> "Array", v |-> s]
JObj(f) == [kind |-> "Object", v |-> f]

\* Numbers are carried as their decimal text: 2 and 2.0 are different Numbers.
PyNone == [kind |-> "none"]
PyBool(b) == [kind |-> "bool", v |-> b]
\* a host int; `fits` says where it fits: "i64", "f64" (too big for i64 but
\* convertible to a double) or "no" (conversion to double overflows)
PyInt(n, fits) == [kind |-> "int", v |-> n, fits |-> fits]
PyFloat(x) == [kind |-> "float", v |-> x]
PyStr(s) == [kind |-> "str", v |-> s]
PyList(s) == [kind |-> "list", v |-> s]
PyDict(f) == [kind |-> "dict", v |-> f]
PyOpaque == [kind |-> "object"]

\* the floats that serde_json::Number::from_f64 refuses
NonFinite == {"nan", "inf", "-inf"}

Ok(v) == [ok |-> TRUE, v |-> v]
Err(e) == [ok |-> FALSE, e |-> e]

\* a variant in which no host object extracts as a bool
ExtractsBool_never(o) == FALSE
\* the extract::<T>() probes of pyany_to_json_value, in the order it tries them
ExtractsBool(o) == o.kind = "bool"
ExtractsI64(o) == o.kind = "bool" \/ (o.kind = "int" /\ o.fits = "i64")
ExtractsF64(o) ==
    o.kind = "float" \/ o.kind = "bool" \/ (o.kind = "int" /\ o.fits # "no")
\* the text of the f64 that extract::<f64>() gives: a float as it is, an int
\* converted to a double
F64Text(o) == IF o.kind = "int" THEN o.v \o ".0" ELSE o.v
ExtractsString(o) == o.kind = "str"
ExtractsVec(o) == o.kind = "list"
ExtractsHashMap(o) == o.kind = "dict"

ConversionError == "TypeError: Cannot convert Python object to JSON"

RECURSIVE pyany_to_json_value(_)
pyany_to_json_value(o) ==
    IF o.kind = "none" THEN Ok(JNull)
    ELSE IF ExtractsBool(o) THEN Ok(JBool(o.v))
    ELSE IF ExtractsI64(o) THEN Ok(JNum(o.v))
    ELSE IF ExtractsF64(o) THEN
        IF F64Text(o) \in NonFinite THEN Ok(JNull) ELSE Ok(JNum(F64Text(o)))
    ELSE IF ExtractsString(o) THEN Ok(JStr(o.v))
    ELSE IF ExtractsVec(o) THEN
        LET rs == [i \in 1..Len(o.v) |-> pyany_to_json_value(o.v[i])]
        IN  IF \E i \in 1..Len(o.v) : ~rs[i].ok
            THEN rs[CHOOSE i \in 1..Len(o.v) :
                        ~rs[i].ok /\ \A j \in 1..(i-1) : rs[j].ok]
            ELSE Ok(JArr([i \in 1..Len(o.v) |-> rs[i].v]))
    ELSE IF ExtractsHashMap(o) THEN
        LET rs == [k \in DOMAIN o.v |-> pyany_to_json_value(o.v[k])]
        IN  IF \E k \in DOMAIN o.v : ~rs[k].ok
            THEN rs[CHOOSE k \in DOMAIN o.v : ~rs[k].ok]
            ELSE Ok(JObj([k \in DOMAIN o.v |-> rs[k].v]))
    ELSE Err(ConversionError)

\* the values a command handler returns in this model
HostValues ==
    { PyNone, PyBool(TRUE), PyInt("7", "i64"), PyFloat("nan"), PyStr("s"),
      PyList(<<PyInt("1", "i64"), PyNone>>),
      PyList(<<PyInt("1", "i64"), PyOpaque>>), PyOpaque }

\* the text of the host exception a callback raises
HostErrorText == "ValueError: boom"

(***************************************************************************)
(* Invocation values (the `args: Value` of handle_py_command).             *)
(***************************************************************************)
Invocations ==
    { JObj([command |-> JStr("a"), x |-> JNum("1")]),
      JObj([command |-> JStr("c")]),
      JObj([command |-> JNum("5")]),
      JObj([x |-> JNum("1")]),
      JStr("a") }

\* Option<&Value>::None
NoValue == [kind |-> "absent"]

\* Value::get(key) with a string key: Some only on an Object that has the key
ValueGet(val, key) ==
    IF val.kind = "Object" /\ key \in DOMAIN val.v THEN val.v[key] ELSE NoValue

\* Value::as_str
ValueAsStr(val) == IF val.kind = "String" THEN val.v ELSE None

\* a variant that takes the text of a `command` of any type for the name
CommandNameOfAnyType(args) ==
    LET f == ValueGet(args, "command")
    IN  IF f.kind = "absent" THEN None
        ELSE IF f.kind \in {"String", "Number"} THEN f.v ELSE "null"

\* args.get("command").and_then(Value::as_str)
CommandNameOf(args) ==
    LET f == ValueGet(args, "command")
    IN  IF f.kind = "absent" THEN None ELSE ValueAsStr(f)

(***************************************************************************)
(* The locking of each operation, statement by statement.  An operation is *)
(* the sequence of its lock operations: with_gil / end_gil (a              *)
(* Python::with_gil block), py_enter / py_leave (a #[pymethods] function   *)
(* called from host code, which holds the interpreter lock for the call),  *)
(* lock / unlock of a slot's Mutex, call / ret (a host callback is called  *)
(* and returns), loop (the native loop, which the thread never leaves).    *)
(***************************************************************************)
Slots == {"APP_HANDLE", "FRONTEND_DIR", "READY_CALLBACK", "LISTENER_CALLBACK",
          "PYCOMMANDS_HANDLER"}
CallbackSlots == {"READY_CALLBACK", "LISTENER_CALLBACK", "PYCOMMANDS_HANDLER"}
Ins(op) == [op |-> op, slot |-> None]
InsLock(s) == [op |-> "lock", slot |-> s]
InsUnlock(s) == [op |-> "unlock", slot |-> s]

\* X.lock().unwrap() .. ; the guard is dropped at the end of the statement
Locked(s) == <<InsLock(s), InsUnlock(s)>>
\* Python::with_gil(|py| { X.lock().unwrap() .. })
GilThenLocked(s) == <<Ins("with_gil")>> \o Locked(s) \o <<Ins("end_gil")>>
\* a variant of a getter that takes the Mutex first and the interpreter lock
\* while holding it
LockedThenGil(s) ==
    <<InsLock(s), Ins("with_gil"), Ins("end_gil"), InsUnlock(s)>>
\* Python::with_gil(|py| callback.call(..))
CallsBack == <<Ins("with_gil"), Ins("call"), Ins("ret"), Ins("end_gil")>>
\* a variant in which the function gives up the interpreter lock for its body
PyMethod_unlocked(body) == body
\* a #[pymethods] function: host code calls it holding the interpreter lock
PyMethod(body) == <<Ins("py_enter")>> \o body \o <<Ins("py_leave")>>

app_handle_locks == Locked("APP_HANDLE")
set_app_handle_locks == Locked("APP_HANDLE")
frontend_dir_locks == Locked("FRONTEND_DIR")
set_frontend_dir_locks == Locked("FRONTEND_DIR")
listener_callback_locks == GilThenLocked("LISTENER_CALLBACK")
set_listener_callback_locks == Locked("LISTENER_CALLBACK")
ready_callback_locks == GilThenLocked("READY_CALLBACK")
set_ready_callback_locks == Locked("READY_CALLBACK")
add_command_handler_locks == Locked("PYCOMMANDS_HANDLER")
get_command_handler_lock_first == LockedThenGil("PYCOMMANDS_HANDLER")
get_command_handler_locks == GilThenLocked("PYCOMMANDS_HANDLER")

on_ready_locks == PyMethod(set_ready_callback_locks)
mount_frontend_locks == PyMethod(set_frontend_dir_locks)
create_window_locks == PyMethod(app_handle_locks)
close_locks == PyMethod(app_handle_locks)
emit_locks == PyMethod(app_handle_locks)
listen_locks == PyMethod(set_listener_callback_locks)
\* a list of two handlers
register_commands_locks ==
    PyMethod(add_command_handler_locks \o add_command_handler_locks)
\* with a ready callback registered, and without one
setup_app_locks(has_ready) ==
    set_app_handle_locks \o ready_callback_locks
        \o (IF has_ready THEN CallsBack ELSE <<>>)
\* run with its on_ready argument; it holds the interpreter lock to its end
run_locks(has_ready) ==
    <<Ins("py_enter")>> \o set_ready_callback_locks
        \o setup_app_locks(has_ready) \o <<Ins("loop")>>
\* the closure of app.listen, with an event callback registered and without
relay_locks(has_listener) ==
    listener_callback_locks \o (IF has_listener THEN CallsBack ELSE <<>>)
\* handle_py_command with the handler found (pyany_to_json_value takes
\* with_gil again inside the block) and not found
handle_py_command_locks(found) ==
    get_command_handler_locks
        \o (IF found
            THEN <<Ins("with_gil"), Ins("call"), Ins("ret"), Ins("with_gil"),
                   Ins("end_gil"), Ins("end_gil")>>
            ELSE <<>>)
handle_fs_protocol_locks == frontend_dir_locks

\* what host code may call
ApiLocks ==
    { on_ready_locks, mount_frontend_locks, create_window_locks, close_locks,
      emit_locks, listen_locks, register_commands_locks }

(***************************************************************************)
(* Paths and files, for handle_fs_protocol.  A request path is the         *)
(* sequence of its separators "/" and its segments; a file system path is  *)
(* a text.  At a path there is a file that can be read ("file"), a file    *)
(* that fs::read fails on ("unreadable"), a directory ("dir") or nothing.  *)
(***************************************************************************)
RequestPaths ==
    { <<"/">>, <<"/", "index.html">>, <<"/", "app.js">>,
      <<"/", "/", "app.js">>, <<"/", "assets", "/">>,
      <<"/", "..", "/", "secret">> }
FsPaths == {"dist/index.html", "dist/app.js", "dist/assets/", "dist/../secret"}
FsEntries == {"absent", "file", "unreadable", "dir"}
FileSystems == [FsPaths -> FsEntries]
EntryAt(files, path) == IF path \in DOMAIN files THEN files[path] ELSE "absent"
\* the bytes of the file at a path
ContentOf(path) == "<" \o path \o ">"

RECURSIVE PathText(_)
PathText(p) == IF p = <<>> THEN "" ELSE Head(p) \o PathText(Tail(p))

\* str::trim_start_matches('/')
RECURSIVE trim_start_matches(_)
trim_start_matches(p) ==
    IF p # <<>> /\ Head(p) = "/" THEN trim_start_matches(Tail(p)) ELSE p

\* a variant that maps "/" like every other path
normalized_path_no_index(request_path) == trim_start_matches(request_path)
\* lines 226-231
normalized_path(request_path) ==
    IF request_path = <<"/">> THEN <<"index.html">>
    ELSE trim_start_matches(request_path)

\* PathBuf::from(dir).join(rel), rel being relative
PathJoin(dir, rel) == dir \o "/" \o PathText(rel)

\* Path::exists and fs::read
PathExists(files, path) == EntryAt(files, path) # "absent"
FsRead(files, path) ==
    IF EntryAt(files, path) = "file"
    THEN [ok |-> TRUE, v |-> ContentOf(path)]
    ELSE [ok |-> FALSE, e |-> "io::Error"]

not_found_response == [status |-> "404", body |-> ""]

handle_fs_protocol(front_dir, request_path, files) ==
    IF front_dir = None THEN not_found_response
    ELSE LET path == PathJoin(front_dir, normalized_path(request_path))
         IN  IF PathExists(files, path)
             THEN IF FsRead(files, path).ok
                  THEN [status |-> "200", body |-> FsRead(files, path).v]
                  ELSE not_found_response
             ELSE not_found_response

(***************************************************************************)
(* mod globals: the five process-wide slots, each behind its own Mutex.    *)
(* A slot operation locks, acts and unlocks within one statement, so each  *)
(* is one atomic step; the operators give the slot's value afterwards and, *)
(* for a getter, the value returned.                                       *)
(***************************************************************************)
VARIABLES
    APP_HANDLE,         \* Option<AppHandle>
    FRONTEND_DIR,       \* Option<String>
    READY_CALLBACK,     \* Option<Py<PyAny>>
    LISTENER_CALLBACK,  \* Option<Py<PyAny>>
    PYCOMMANDS_HANDLER  \* HashMap<String, PyObject>

registry ==
    <<APP_HANDLE, FRONTEND_DIR, READY_CALLBACK, LISTENER_CALLBACK,
      PYCOMMANDS_HANDLER>>

\* the empty HashMap
EmptyMap == [k \in {} |-> None]

app_handle(slot) == [ret |-> slot, slot |-> slot]
\* a variant that stores nothing
set_app_handle_dropped(slot, handle) == slot
set_app_handle(slot, handle) == handle
frontend_dir(slot) == [ret |-> slot, slot |-> slot]
set_frontend_dir(slot, path) == path
\* a variant that finds nothing
listener_callback_none(slot) == [ret |-> None, slot |-> slot]
listener_callback(slot) == [ret |-> slot, slot |-> slot]
set_listener_callback(slot, callback) == callback
ready_callback(slot) == [ret |-> slot, slot |-> slot]
set_ready_callback(slot, callback) == callback
\* a variant that keeps the entry a key already has (entry().or_insert)
add_command_handler_keep_first(map, key, value) ==
    [k \in (DOMAIN map) \cup {key} |-> IF k \in DOMAIN map THEN map[k] ELSE value]
\* a variant that files every handler under the one key "a"
add_command_handler_fixed_key(map, key, value) ==
    [k \in (DOMAIN map) \cup {"a"} |-> IF k = "a" THEN value ELSE map[k]]
\* a variant that replaces the whole table by the new entry
add_command_handler_clobber(map, key, value) == [k \in {key} |-> value]
add_command_handler(map, key, value) ==
    [k \in (DOMAIN map) \cup {key} |-> IF k = key THEN value ELSE map[k]]
\* a variant that moves the handler out of the table
get_command_handler_take(map, key) ==
    IF key \in DOMAIN map
    THEN [ret |-> map[key],
          slot |-> [k \in (DOMAIN map) \ {key} |-> map[k]]]
    ELSE [ret |-> None, slot |-> map]
\* a variant that falls back to some registered handler for an unknown key
get_command_handler_or_any(map, key) ==
    [ret |-> IF key \in DOMAIN map THEN map[key]
             ELSE IF DOMAIN map # {} THEN map[CHOOSE k \in DOMAIN map : TRUE]
             ELSE None,
     slot |-> map]
get_command_handler(map, key) ==
    [ret |-> IF key \in DOMAIN map THEN map[key] ELSE None, slot |-> map]

(***************************************************************************)
(* The rest of the state.                                                  *)
(***************************************************************************)
VARIABLES
    gil,        \* the thread keeping the interpreter execution lock, or NoThread
    pc,         \* each thread's position
    regq,       \* the handlers a running register_commands call has still to take
    loc,        \* the locals of the dispatch or relay a thread is executing
    out,        \* what the step just taken returned to its caller, if anything
    subscribed, \* app.listen("webview_emit", ..) has been called
    exitReq,    \* AppHandle::exit has been called
    runResult,  \* what TauriApp.run returned (None while it has not)
    readyCalls, \* how many times the ready callback has been invoked
    lastReg,    \* per command name, the handler of the latest registration
    replaced,   \* the handlers whose table entry a later registration took
    relayFailed,\* some event callback has raised
    dispatchFailed, \* some command handler has raised or returned an
                \* uncoercible value
    nCalls, nDispatch, nEvents,
    py_obj,     \* the host value pyany_to_json_value is given
    coerced,    \* what it returned (NoOut before it has)
    fs_path,    \* the path of the request handle_fs_protocol is given
    fs_files,   \* the file system: what is at each path
    fs_response,\* what handle_fs_protocol answered (NoOut before it has)
    prog,       \* each thread's lock operations still to execute
    mutex,      \* who holds the Mutex of each slot
    gdepth      \* how many scopes holding the interpreter lock a thread is in

vars ==
    <<APP_HANDLE, FRONTEND_DIR, READY_CALLBACK, LISTENER_CALLBACK,
      PYCOMMANDS_HANDLER, gil, pc, regq, loc, out, subscribed, exitReq,
      runResult, readyCalls, lastReg, replaced, relayFailed, dispatchFailed,
      nCalls, nDispatch, nEvents, py_obj, coerced, fs_path,
      fs_files, fs_response, prog, mutex, gdepth>>

\* Option<Value>
SomeV(j) == [some |-> TRUE, val |-> j]
NoneV == [some |-> FALSE]

NoLoc == [args |-> NoValue, name |-> None, handler |-> None, latest |-> None,
          cb |-> None, rcv |-> None]
\* The outputs of a step.  Api: a TauriApp call of thread t returned res;
\* early says that APP_HANDLE was empty when it was called.  Resp:
\* handle_py_command returned res for args, having invoked the handler
\* `invoked`; latest is the handler that was the latest registered under the
\* name when it was looked up.  Relay: the relay closure is over; it called the callback cb
\* (None: it called nothing), which raised or not; rcv is the event callback
\* that was registered when the event arrived.
NoOut == [kind |-> "none"]
Api(t, op, res, early) ==
    [kind |-> "api", t |-> t, op |-> op, res |-> res, early |-> early]
Resp(t, args, res, invoked, latest) ==
    [kind |-> "resp", t |-> t, args |-> args, res |-> res,
     invoked |-> invoked, latest |-> latest]
Relay(t, cb, failed, rcv) ==
    [kind |-> "relay", t |-> t, cb |-> cb, failed |-> failed, rcv |-> rcv]

\* positions in which a thread is executing host (Python) code
PyPcs == {"py", "ready_body", "handler_body", "listener_body"}

\* where a thread goes back to when a dispatch or a relayed event is over
Base(t) == IF t = "main" THEN "loop" ELSE "idle"

(***************************************************************************)
(* The interpreter execution lock.  A thread that is executing host code   *)
(* holds the lock, and gives it up at the interpreter's switch points      *)
(* whenever another thread asks for it: such a holder keeps nobody out.  A *)
(* thread in native code keeps the lock until it releases it.  `gil` is    *)
(* the thread that keeps the lock in native code, NoThread when the lock   *)
(* is free or its holder is executing host code.  Python::with_gil is      *)
(* re-entrant: it blocks only while another thread keeps the lock.         *)
(***************************************************************************)
CanTakeGil(t) == gil \in {t, NoThread}

\* The lock after a with_gil block of thread t ends.  The thread that called
\* run holds the lock for the whole of run (run takes `py: Python` and never
\* releases it), so its with_gil blocks are nested ones and release nothing.
AfterWithGil(t) == IF t = "main" THEN t ELSE NoThread

\* the lock while thread t, which holds it, executes host code
InHostCode == NoThread

\* the bridge right after the module is loaded
BridgeInit ==
    /\ APP_HANDLE = None
    /\ FRONTEND_DIR = None
    /\ READY_CALLBACK = None
    /\ LISTENER_CALLBACK = None
    /\ PYCOMMANDS_HANDLER = EmptyMap
    /\ gil = NoThread
    /\ pc = [t \in Threads |-> IF t \in PyThreads THEN "py" ELSE "idle"]
    /\ regq = [t \in Threads |-> <<>>]
    /\ loc = [t \in Threads |-> NoLoc]
    /\ out = NoOut
    /\ subscribed = FALSE
    /\ exitReq = FALSE
    /\ runResult = None
    /\ readyCalls = 0
    /\ lastReg = EmptyMap
    /\ replaced = {}
    /\ relayFailed = FALSE
    /\ dispatchFailed = FALSE
    /\ nCalls = 0
    /\ nDispatch = 0
    /\ nEvents = 0
    /\ prog = [t \in Threads |-> <<>>]
    /\ mutex = [s \in Slots |-> NoThread]
    /\ gdepth = [t \in Threads |-> 0]

Init ==
    /\ BridgeInit
    /\ py_obj = PyNone
    /\ coerced = NoOut
    /\ fs_path = <<"/">>
    /\ fs_files = [p \in FsPaths |-> "absent"]
    /\ fs_response = NoOut

(***************************************************************************)
(* impl TauriApp: the host-facing operations.  Each is called from host    *)
(* code, by a thread that holds the interpreter lock.                      *)
(***************************************************************************)
CanCall(t) ==
    /\ pc[t] \in PyPcs
    /\ CanTakeGil(t)
    /\ regq[t] = <<>>
    /\ nCalls < MaxApiCalls

Called(t, op, res) ==
    /\ out' = Api(t, op, res, APP_HANDLE = None)
    /\ nCalls' = nCalls + 1

on_ready(t, callback) ==
    /\ CanCall(t)
    /\ READY_CALLBACK' = set_ready_callback(READY_CALLBACK, callback)
    /\ Called(t, "on_ready", Ok("unit"))
    /\ UNCHANGED <<APP_HANDLE, FRONTEND_DIR, LISTENER_CALLBACK,
                   PYCOMMANDS_HANDLER, gil, pc, regq, loc, subscribed,
                   exitReq, runResult, readyCalls, lastReg, replaced,
                   relayFailed, dispatchFailed, nDispatch, nEvents, py_obj,
                   coerced, fs_path, fs_files, fs_response, prog, mutex,
                   gdepth>>

mount_frontend(t, path) ==
    /\ CanCall(t)
    /\ FRONTEND_DIR' = set_frontend_dir(FRONTEND_DIR, path)
    /\ Called(t, "mount_frontend", Ok("unit"))
    /\ UNCHANGED <<APP_HANDLE, READY_CALLBACK, LISTENER_CALLBACK,
                   PYCOMMANDS_HANDLER, gil, pc, regq, loc, subscribed,
                   exitReq, runResult, readyCalls, lastReg, replaced,
                   relayFailed, dispatchFailed, nDispatch, nEvents, py_obj,
                   coerced, fs_path, fs_files, fs_response, prog, mutex,
                   gdepth>>

Urls == {"http://localhost", "not a url"}
UrlParses(url) == url = "http://localhost"
NotInitialized == "RuntimeError: App handle not initialized"

\* what create_window returns; buildOk is whether WebviewWindowBuilder::build
\* succeeds
CreateWindowResult(handle, url, buildOk) ==
    IF handle = None THEN Err(NotInitialized)
    ELSE IF ~UrlParses(url) THEN Err("ValueError: Invalid URL")
    ELSE IF ~buildOk THEN Err("RuntimeError: Failed to build window")
    ELSE Ok("unit")

create_window(t, url, buildOk) ==
    /\ CanCall(t)
    /\ Called(t, "create_window",
              CreateWindowResult(app_handle(APP_HANDLE).ret, url, buildOk))
    /\ UNCHANGED <<registry, gil, pc, regq, loc, subscribed, exitReq,
                   runResult, readyCalls, lastReg, replaced, relayFailed,
                   dispatchFailed, nDispatch, nEvents, py_obj, coerced,
                   fs_path, fs_files, fs_response, prog, mutex, gdepth>>

\* close and emit act only when the handle is there, and return Ok(()) when
\* it is not
CloseResult(handle) == Ok("unit")
close(t) ==
    /\ CanCall(t)
    /\ LET handle == app_handle(APP_HANDLE).ret
       IN  /\ exitReq' = (exitReq \/ handle # None)
           /\ Called(t, "close", CloseResult(handle))
    /\ UNCHANGED <<registry, gil, pc, regq, loc, subscribed, runResult,
                   readyCalls, lastReg, replaced, relayFailed,
                   dispatchFailed, nDispatch, nEvents, py_obj, coerced,
                   fs_path, fs_files, fs_response, prog, mutex, gdepth>>

\* AppHandle::emit may fail; without a handle nothing is emitted
EmitResult(handle, emitOk) ==
    IF handle # None /\ ~emitOk
    THEN Err("RuntimeError: Failed to emit event")
    ELSE Ok("unit")
emit(t, emitOk) ==
    /\ CanCall(t)
    /\ Called(t, "emit", EmitResult(app_handle(APP_HANDLE).ret, emitOk))
    /\ UNCHANGED <<registry, gil, pc, regq, loc, subscribed, exitReq,
                   runResult, readyCalls, lastReg, replaced, relayFailed,
                   dispatchFailed, nDispatch, nEvents, py_obj, coerced,
                   fs_path, fs_files, fs_response, prog, mutex, gdepth>>

listen(t, callback) ==
    /\ CanCall(t)
    /\ LISTENER_CALLBACK' = set_listener_callback(LISTENER_CALLBACK, callback)
    /\ Called(t, "listen", Ok("unit"))
    /\ UNCHANGED <<APP_HANDLE, FRONTEND_DIR, READY_CALLBACK,
                   PYCOMMANDS_HANDLER, gil, pc, regq, loc, subscribed,
                   exitReq, runResult, readyCalls, lastReg, replaced,
                   relayFailed, dispatchFailed, nDispatch, nEvents, py_obj,
                   coerced, fs_path, fs_files, fs_response, prog, mutex,
                   gdepth>>

\* register_commands: the call starts with the whole list to go through
register_commands(t, handlers) ==
    /\ CanCall(t)
    /\ regq' = [regq EXCEPT ![t] = handlers]
    /\ Called(t, "register_commands", Ok("pending"))
    /\ UNCHANGED <<registry, gil, pc, loc, subscribed, exitReq, runResult,
                   readyCalls, lastReg, replaced, relayFailed,
                   dispatchFailed, nDispatch, nEvents, py_obj, coerced,
                   fs_path, fs_files, fs_response, prog, mutex, gdepth>>

\* a variant that skips a handler without a name and goes on with the rest
RemainingAfterFailure_skip(queue) == Tail(queue)
\* the handlers the loop of register_commands still visits after getattr or
\* extract failed on the head of the queue: `?` returns from the function
RemainingAfterFailure(queue) == <<>>

\* one turn of the loop of register_commands: getattr(handler, "__name__"),
\* extract::<String>(), add_command_handler; `?` ends the call at a failure
RegisterStep(t) ==
    /\ pc[t] \in PyPcs
    /\ CanTakeGil(t)
    /\ regq[t] # <<>>
    /\ LET handler == Head(regq[t])
           name == HName(handler)
       IN  IF name = None
           THEN /\ regq' = [regq EXCEPT
                                 ![t] = RemainingAfterFailure(regq[t])]
                /\ out' = Api(t, "register_commands",
                                Err("AttributeError: __name__"), APP_HANDLE = None)
                /\ UNCHANGED <<PYCOMMANDS_HANDLER, lastReg, replaced>>
           ELSE /\ PYCOMMANDS_HANDLER' =
                       add_command_handler(PYCOMMANDS_HANDLER, name, handler)
                /\ lastReg' = (name :> handler) @@ lastReg
                /\ replaced' =
                       IF name \in DOMAIN lastReg /\ lastReg[name] # handler
                       THEN replaced \cup {lastReg[name]}
                       ELSE replaced
                /\ regq' = [regq EXCEPT ![t] = Tail(regq[t])]
                /\ out' = Api(t, "register_commands",
                                IF Tail(regq[t]) = <<>> THEN Ok("unit")
                                ELSE Ok("pending"), APP_HANDLE = None)
    /\ UNCHANGED <<APP_HANDLE, FRONTEND_DIR, READY_CALLBACK,
                   LISTENER_CALLBACK, gil, pc, loc, subscribed, exitReq,
                   runResult, readyCalls, relayFailed, dispatchFailed,
                   nCalls, nDispatch, nEvents, py_obj, coerced, fs_path,
                   fs_files, fs_response, prog, mutex, gdepth>>

\* the icon_path argument of run, which setup_app gets
IconPaths == {"icon.png", "missing.png"}
IconLoads(path) == path = "icon.png"

\* run: store the on_ready argument if there is one, then build and run the
\* shell, which calls setup_app on this thread
run(t, on_ready_arg) ==
    /\ t = "main"
    /\ pc[t] = "py"
    /\ CanTakeGil(t)
    /\ gil' = t
    /\ regq[t] = <<>>
    /\ READY_CALLBACK' = IF on_ready_arg # None
                         THEN set_ready_callback(READY_CALLBACK, on_ready_arg)
                         ELSE READY_CALLBACK
    /\ pc' = [pc EXCEPT ![t] = "setup"]
    /\ out' = NoOut
    /\ UNCHANGED <<APP_HANDLE, FRONTEND_DIR, LISTENER_CALLBACK,
                   PYCOMMANDS_HANDLER, regq, loc, subscribed, exitReq,
                   runResult, readyCalls, lastReg, replaced, relayFailed,
                   dispatchFailed, nCalls, nDispatch, nEvents, py_obj,
                   coerced, fs_path, fs_files, fs_response, prog, mutex,
                   gdepth>>

(***************************************************************************)
(* setup_app, on the thread that called run.                               *)
(***************************************************************************)
\* set_app_handle, then the lookup of the ready callback and, if there is
\* one, the call of it
SetupStart(t) ==
    /\ pc[t] = "setup"
    /\ APP_HANDLE' = set_app_handle(APP_HANDLE, TheAppHandle)
    /\ LET got == ready_callback(READY_CALLBACK)
       IN  /\ READY_CALLBACK' = got.slot
           /\ IF got.ret # None
              THEN /\ pc' = [pc EXCEPT ![t] = "ready_body"]
                   /\ loc' = [loc EXCEPT ![t].cb = got.ret]
                   /\ readyCalls' = readyCalls + 1
                   /\ gil' = InHostCode
              ELSE /\ pc' = [pc EXCEPT ![t] = "setup_icon"]
                   /\ UNCHANGED <<loc, readyCalls, gil>>
    /\ out' = NoOut
    /\ UNCHANGED <<FRONTEND_DIR, LISTENER_CALLBACK, PYCOMMANDS_HANDLER,
                   regq, subscribed, exitReq, runResult, lastReg, replaced,
                   relayFailed, dispatchFailed, nCalls, nDispatch, nEvents,
                   py_obj, coerced, fs_path, fs_files, fs_response, prog,
                   mutex, gdepth>>

\* callback.call0(py)? : a failure of the ready callback ends setup_app, and
\* run returns 1
ReadyReturns(t, raised) ==
    /\ pc[t] = "ready_body"
    /\ CanTakeGil(t)
    /\ gil' = AfterWithGil(t)
    /\ regq[t] = <<>>
    /\ loc' = [loc EXCEPT ![t] = NoLoc]
    /\ IF raised
       THEN /\ pc' = [pc EXCEPT ![t] = "done"]
            /\ runResult' = "1"
       ELSE /\ pc' = [pc EXCEPT ![t] = "setup_icon"]
            /\ UNCHANGED runResult
    /\ out' = NoOut
    /\ UNCHANGED <<registry, regq, subscribed, exitReq, readyCalls, lastReg,
                   replaced, relayFailed, dispatchFailed, nCalls, nDispatch,
                   nEvents, py_obj, coerced, fs_path, fs_files, fs_response,
                   prog, mutex, gdepth>>

\* the window icon, if a path was given and the window "main" exists, and
\* then app.listen("webview_emit", ..)
SetupFinish(t, icon_path, hasMain) ==
    /\ pc[t] = "setup_icon"
    /\ IF icon_path # None /\ hasMain /\ ~IconLoads(icon_path)
       THEN /\ pc' = [pc EXCEPT ![t] = "done"]
            /\ runResult' = "1"
            /\ UNCHANGED subscribed
       ELSE /\ pc' = [pc EXCEPT ![t] = "loop"]
            /\ subscribed' = TRUE
            /\ UNCHANGED runResult
    /\ out' = NoOut
    /\ UNCHANGED <<registry, gil, regq, loc, exitReq, readyCalls, lastReg,
                   replaced, relayFailed, dispatchFailed, nCalls, nDispatch,
                   nEvents, py_obj, coerced, fs_path, fs_files, fs_response,
                   prog, mutex, gdepth>>

\* the native loop ends once exit has been asked for; run returns 0
LoopExit(t) ==
    /\ pc[t] = "loop"
    /\ exitReq
    /\ pc' = [pc EXCEPT ![t] = "done"]
    /\ runResult' = "0"
    /\ out' = NoOut
    /\ UNCHANGED <<registry, gil, regq, loc, subscribed, exitReq,
                   readyCalls, lastReg, replaced, relayFailed,
                   dispatchFailed, nCalls, nDispatch, nEvents, py_obj,
                   coerced, fs_path, fs_files, fs_response, prog, mutex,
                   gdepth>>

\* the shell is up: setup_app has been entered and run has not returned
ShellRuns == pc["main"] \notin {"py", "setup", "done"}

\* thread t is free to take an event from the shell: the relay closure runs
\* on the thread that emits the event, the loop's thread or a native one
Idle(t) == pc[t] = Base(t) /\ ShellRuns /\ t # "py2"

(***************************************************************************)
(* handle_py_command                                                       *)
(***************************************************************************)
MissingCommand == "Missing command name in args"
NotRegistered(name) == "Command '" \o name \o "' not registered"
CallbackError(text) == "Python callback error: " \o text
ConvertError(text) == "Failed to convert Python result: " \o text

\* lines 291-298: the command name, or the error.  handle_py_command is a
\* #[tauri::command] that is not async: the shell runs it on the thread of the
\* native loop, which is the thread that called run.
DispatchBegin(t, args) ==
    /\ t = "main"
    /\ Idle(t)
    /\ nDispatch < MaxDispatch
    /\ nDispatch' = nDispatch + 1
    /\ LET command_name == CommandNameOf(args)
       IN  IF command_name = None
           THEN /\ out' = Resp(t, args, Err(MissingCommand), None, None)
                /\ UNCHANGED <<pc, loc>>
           ELSE /\ pc' = [pc EXCEPT ![t] = "d_lookup"]
                /\ loc' = [loc EXCEPT ![t] =
                       [NoLoc EXCEPT !.args = args, !.name = command_name]]
                /\ out' = NoOut
    /\ UNCHANGED <<registry, gil, regq, subscribed, exitReq, runResult,
                   readyCalls, lastReg, replaced, relayFailed,
                   dispatchFailed, nCalls, nEvents, py_obj, coerced,
                   fs_path, fs_files, fs_response, prog, mutex, gdepth>>

\* lines 300-301: get_command_handler under its own with_gil
DispatchLookup(t) ==
    /\ pc[t] = "d_lookup"
    /\ CanTakeGil(t)
    /\ LET got == get_command_handler(PYCOMMANDS_HANDLER, loc[t].name)
       IN  /\ PYCOMMANDS_HANDLER' = got.slot
           /\ IF got.ret = None
              THEN /\ out' = Resp(t, loc[t].args,
                                    Err(NotRegistered(loc[t].name)), None, None)
                   /\ pc' = [pc EXCEPT ![t] = Base(t)]
                   /\ loc' = [loc EXCEPT ![t] = NoLoc]
              ELSE /\ pc' = [pc EXCEPT ![t] = "d_call"]
                   /\ loc' = [loc EXCEPT ![t].handler = got.ret,
                                         ![t].latest =
                                             IF loc[t].name \in DOMAIN lastReg
                                             THEN lastReg[loc[t].name]
                                             ELSE None]
                   /\ out' = NoOut
    /\ gil' = AfterWithGil(t)
    /\ UNCHANGED <<APP_HANDLE, FRONTEND_DIR, READY_CALLBACK,
                   LISTENER_CALLBACK, regq, subscribed, exitReq, runResult,
                   readyCalls, lastReg, replaced, relayFailed,
                   dispatchFailed, nCalls, nDispatch, nEvents, py_obj,
                   coerced, fs_path, fs_files, fs_response, prog, mutex,
                   gdepth>>

\* line 303-305: with_gil, and handler.call1 enters the handler
DispatchCall(t) ==
    /\ pc[t] = "d_call"
    /\ CanTakeGil(t)
    /\ gil' = InHostCode
    /\ pc' = [pc EXCEPT ![t] = "handler_body"]
    /\ out' = NoOut
    /\ UNCHANGED <<registry, regq, loc, subscribed, exitReq, runResult,
                   readyCalls, lastReg, replaced, relayFailed,
                   dispatchFailed, nCalls, nDispatch, nEvents, py_obj,
                   coerced, fs_path, fs_files, fs_response, prog, mutex,
                   gdepth>>

\* what the handler does in the end: it raises, or it returns a host value
HandlerReturns == {PyNone, PyInt("7", "i64"), PyOpaque,
                   PyList(<<PyInt("1", "i64"), PyOpaque>>)}
HandlerOutcomes ==
    {[raised |-> TRUE, value |-> PyNone]}
        \cup {[raised |-> FALSE, value |-> v] : v \in HandlerReturns}

\* a variant that answers a host None with the absent result
DispatchResult_null_absent(outcome) ==
    IF outcome.raised THEN Err(CallbackError(HostErrorText))
    ELSE LET conv == pyany_to_json_value(outcome.value)
         IN  IF ~conv.ok THEN Err(ConvertError(conv.e))
             ELSE IF conv.v = JNull THEN Ok(NoneV) ELSE Ok(SomeV(conv.v))
\* a variant in the manner of commands.rs, which unwraps the call's result
DispatchResult_unwrap(outcome) ==
    IF outcome.raised THEN Err("panicked at Result::unwrap()")
    ELSE LET conv == pyany_to_json_value(outcome.value)
         IN  IF conv.ok THEN Ok(SomeV(conv.v)) ELSE Err(ConvertError(conv.e))
\* lines 305-310: the Result of the with_gil block
DispatchResult(outcome) ==
    IF outcome.raised THEN Err(CallbackError(HostErrorText))
    ELSE LET conv == pyany_to_json_value(outcome.value)
         IN  IF conv.ok THEN Ok(SomeV(conv.v)) ELSE Err(ConvertError(conv.e))

HandlerReturnsTo(t, outcome) ==
    /\ pc[t] = "handler_body"
    /\ CanTakeGil(t)
    /\ regq[t] = <<>>
    /\ out' = Resp(t, loc[t].args, DispatchResult(outcome), loc[t].handler,
                    loc[t].latest)
    /\ dispatchFailed' = (dispatchFailed \/ ~DispatchResult(outcome).ok)
    /\ gil' = AfterWithGil(t)
    /\ pc' = [pc EXCEPT ![t] = Base(t)]
    /\ loc' = [loc EXCEPT ![t] = NoLoc]
    /\ UNCHANGED <<registry, regq, subscribed, exitReq, runResult,
                   readyCalls, lastReg, replaced, relayFailed, nCalls,
                   nDispatch, nEvents, py_obj, coerced, fs_path, fs_files,
                   fs_response, prog, mutex, gdepth>>

(***************************************************************************)
(* The event relay: the closure given to app.listen in setup_app.          *)
(***************************************************************************)
\* an event arrives on "webview_emit"
RelayReceive(t) ==
    /\ Idle(t)
    /\ subscribed
    /\ nEvents < MaxEvents
    /\ nEvents' = nEvents + 1
    /\ pc' = [pc EXCEPT ![t] = "e_lookup"]
    /\ loc' = [loc EXCEPT ![t].rcv = LISTENER_CALLBACK]
    /\ out' = NoOut
    /\ UNCHANGED <<registry, gil, regq, subscribed, exitReq, runResult,
                   readyCalls, lastReg, replaced, relayFailed,
                   dispatchFailed, nCalls, nDispatch, py_obj, coerced,
                   fs_path, fs_files, fs_response, prog, mutex, gdepth>>

\* line 278: listener_callback() under its own with_gil
RelayLookup(t) ==
    /\ pc[t] = "e_lookup"
    /\ CanTakeGil(t)
    /\ LET got == listener_callback(LISTENER_CALLBACK)
       IN  /\ LISTENER_CALLBACK' = got.slot
           /\ IF got.ret = None
              THEN /\ pc' = [pc EXCEPT ![t] = Base(t)]
                   /\ out' = Relay(t, None, FALSE, loc[t].rcv)
                   /\ loc' = [loc EXCEPT ![t] = NoLoc]
              ELSE /\ pc' = [pc EXCEPT ![t] = "e_call"]
                   /\ loc' = [loc EXCEPT ![t].cb = got.ret,
                                         ![t].latest = LISTENER_CALLBACK]
                   /\ out' = NoOut
    /\ gil' = AfterWithGil(t)
    /\ UNCHANGED <<APP_HANDLE, FRONTEND_DIR, READY_CALLBACK,
                   PYCOMMANDS_HANDLER, regq, subscribed, exitReq, runResult,
                   readyCalls, lastReg, replaced, relayFailed,
                   dispatchFailed, nCalls, nDispatch, nEvents, py_obj,
                   coerced, fs_path, fs_files, fs_response, prog, mutex,
                   gdepth>>

\* lines 279-281: with_gil, and callback.call1 enters the event callback
RelayCall(t) ==
    /\ pc[t] = "e_call"
    /\ CanTakeGil(t)
    /\ gil' = InHostCode
    /\ pc' = [pc EXCEPT ![t] = "listener_body"]
    /\ out' = NoOut
    /\ UNCHANGED <<registry, regq, loc, subscribed, exitReq, runResult,
                   readyCalls, lastReg, replaced, relayFailed,
                   dispatchFailed, nCalls, nDispatch, nEvents, py_obj,
                   coerced, fs_path, fs_files, fs_response, prog, mutex,
                   gdepth>>

\* a variant in which a failure of the callback ends the subscription
SubscribedAfterRelay_drop(sub, raised) == sub /\ ~raised
\* the subscription after the closure has run: it unlistens nowhere, and a
\* failure of the callback is logged, nothing else
SubscribedAfterRelay(sub, raised) == sub

\* lines 281-283: call1 returns, with a failure or without
ListenerReturns(t, raised) ==
    /\ pc[t] = "listener_body"
    /\ CanTakeGil(t)
    /\ regq[t] = <<>>
    /\ out' = Relay(t, loc[t].cb, raised, loc[t].rcv)
    /\ relayFailed' = (relayFailed \/ raised)
    /\ subscribed' = SubscribedAfterRelay(subscribed, raised)
    /\ gil' = AfterWithGil(t)
    /\ pc' = [pc EXCEPT ![t] = Base(t)]
    /\ loc' = [loc EXCEPT ![t] = NoLoc]
    /\ UNCHANGED <<registry, regq, exitReq, runResult, readyCalls, lastReg,
                   replaced, dispatchFailed, nCalls, nDispatch, nEvents,
                   py_obj, coerced, fs_path, fs_files, fs_response, prog,
                   mutex, gdepth>>

(***************************************************************************)
(* The specification.                                                      *)
(***************************************************************************)
Next ==
    \/ \E t \in Threads, cb \in ReadyCallbacks : on_ready(t, cb)
    \/ \E t \in Threads, path \in FrontendDirs : mount_frontend(t, path)
    \/ \E t \in Threads, url \in Urls, buildOk \in BOOLEAN :
            create_window(t, url, buildOk)
    \/ \E t \in Threads : close(t)
    \/ \E t \in Threads, emitOk \in BOOLEAN : emit(t, emitOk)
    \/ \E t \in Threads, cb \in ListenerCallbacks : listen(t, cb)
    \/ \E t \in Threads, hs \in HandlerLists : register_commands(t, hs)
    \/ \E t \in Threads : RegisterStep(t)
    \/ \E cb \in ReadyCallbacks \cup {None} : run("main", cb)
    \/ \E t \in Threads : SetupStart(t)
    \/ \E t \in Threads, raised \in BOOLEAN : ReadyReturns(t, raised)
    \/ \E t \in Threads, icon \in IconPaths \cup {None}, hasMain \in BOOLEAN :
            SetupFinish(t, icon, hasMain)
    \/ \E t \in Threads : LoopExit(t)
    \/ \E args \in Invocations : DispatchBegin("main", args)
    \/ \E t \in Threads : DispatchLookup(t)
    \/ \E t \in Threads : DispatchCall(t)
    \/ \E t \in Threads, o \in HandlerOutcomes : HandlerReturnsTo(t, o)
    \/ \E t \in Threads : RelayReceive(t)
    \/ \E t \in Threads : RelayLookup(t)
    \/ \E t \in Threads : RelayCall(t)
    \/ \E t \in Threads, raised \in BOOLEAN : ListenerReturns(t, raised)

Spec == Init /\ [][Next]_vars

\* The bridge with its scheduling.  What the host program calls and what the
\* webview sends is up to them; a step of the bridge that can be taken is
\* taken: a thread that asks for the interpreter lock gets it if its holder
\* is in host code again and again (the interpreter hands the lock over at
\* its switch points), and a callback that has been entered returns.
BridgeStep(t) ==
    \/ RegisterStep(t)
    \/ SetupStart(t)
    \/ \E icon \in IconPaths \cup {None}, hasMain \in BOOLEAN :
            SetupFinish(t, icon, hasMain)
    \/ DispatchLookup(t)
    \/ DispatchCall(t)
    \/ RelayLookup(t)
    \/ RelayCall(t)
    \/ \E raised \in BOOLEAN : ReadyReturns(t, raised)
    \/ \E o \in HandlerOutcomes : HandlerReturnsTo(t, o)
    \/ \E raised \in BOOLEAN : ListenerReturns(t, raised)

Fairness == \A t \in Threads : SF_vars(BridgeStep(t))

LiveSpec == Spec /\ Fairness

(***************************************************************************)
(* pyany_to_json_value on its own: the host value is any of CoerceInputs,  *)
(* and the one step applies the function to it.                            *)
(***************************************************************************)
CoerceAtoms ==
    { PyNone, PyBool(TRUE), PyBool(FALSE), PyInt("7", "i64"),
      PyInt("9223372036854775808", "f64"), PyInt("10**400", "no"),
      PyFloat("1.5"), PyFloat("nan"), PyFloat("inf"), PyFloat("-inf"),
      PyStr("s"), PyOpaque }

\* what stands next to a nested value in a two-element list or mapping
CoerceFillers == { PyInt("7", "i64"), PyOpaque }

\* the host values nested at most d deep
RECURSIVE CoerceInputs(_)
CoerceInputs(d) ==
    IF d = 0
    THEN CoerceAtoms \cup {PyList(<<>>), PyDict([k \in {} |-> PyNone])}
    ELSE LET S == CoerceInputs(d - 1)
         IN  S \cup {PyList(<<x>>) : x \in S}
               \cup {PyList(<<a, x>>) : a \in CoerceFillers, x \in S}
               \cup {PyList(<<x, a>>) : a \in CoerceFillers, x \in S}
               \cup {PyDict([k \in {"k"} |-> x]) : x \in S}
               \cup {PyDict([k \in {"k", "m"} |-> IF k = "k" THEN x ELSE a]) :
                        a \in CoerceFillers, x \in S}

CoerceInit ==
    /\ BridgeInit
    /\ py_obj \in CoerceInputs(MaxDepth)
    /\ coerced = NoOut
    /\ fs_path = <<"/">>
    /\ fs_files = [p \in FsPaths |-> "absent"]
    /\ fs_response = NoOut

Coerce ==
    /\ coerced = NoOut
    /\ coerced' = pyany_to_json_value(py_obj)
    /\ UNCHANGED <<registry, gil, pc, regq, loc, out, subscribed, exitReq,
                   runResult, readyCalls, lastReg, replaced, relayFailed,
                   dispatchFailed, nCalls, nDispatch, nEvents, py_obj,
                   fs_path, fs_files, fs_response, prog, mutex, gdepth>>

CoerceNext == Coerce

CoerceSpec == CoerceInit /\ [][CoerceNext]_vars

(***************************************************************************)
(* handle_fs_protocol on its own: any request path, any file system; the   *)
(* frontend directory is what mount_frontend has stored.                   *)
(***************************************************************************)
FsInit ==
    /\ BridgeInit
    /\ py_obj = PyNone
    /\ coerced = NoOut
    /\ fs_path \in RequestPaths
    /\ fs_files \in FileSystems
    /\ fs_response = NoOut

FsRequest ==
    /\ fs_response = NoOut
    /\ fs_response' =
           handle_fs_protocol(frontend_dir(FRONTEND_DIR).ret, fs_path, fs_files)
    /\ out' = NoOut
    /\ UNCHANGED <<registry, gil, pc, regq, loc, subscribed, exitReq,
                   runResult, readyCalls, lastReg, replaced, relayFailed,
                   dispatchFailed, nCalls, nDispatch, nEvents, py_obj,
                   coerced, fs_path, fs_files, prog, mutex, gdepth>>

\* the frontend directory is mounted before the request arrives
FsMount(path) == fs_response = NoOut /\ mount_frontend("main", path)

FsNext ==
    \/ \E path \in FrontendDirs : FsMount(path)
    \/ FsRequest

FsSpec == FsInit /\ [][FsNext]_vars

(***************************************************************************)
(* The locking on its own: the threads execute the lock operations of the  *)
(* operations they call, one at a time.  Host code calls TauriApp; the     *)
(* shell, once run has been called, hands commands, events and file        *)
(* requests to the loop's thread and events and file requests to a native  *)
(* thread.                                                                 *)
(***************************************************************************)
NextIns(t) == IF prog[t] = <<>> THEN Ins("none") ELSE Head(prog[t])
Pop(t) == [prog EXCEPT ![t] = Tail(prog[t])]

\* the thread is executing host code: at top level, or inside a callback
InHost(t) ==
    IF prog[t] = <<>> THEN t \in PyThreads ELSE NextIns(t).op = "ret"
\* run has been called
LoopEntered ==
    prog["main"] # <<>> /\ prog["main"][Len(prog["main"])].op = "loop"
\* the thread is free to take a request from the shell
TakesRequests(t) ==
    IF t = "main" THEN NextIns(t).op = "loop"
    ELSE t = "worker" /\ prog[t] = <<>> /\ LoopEntered

LkApiCall(t, p) ==
    /\ InHost(t)
    /\ CanTakeGil(t)
    /\ nCalls < MaxApiCalls
    /\ nCalls' = nCalls + 1
    /\ prog' = [prog EXCEPT ![t] = p \o prog[t]]
    /\ UNCHANGED <<registry, gil, pc, regq, loc, out, subscribed, exitReq,
                   runResult, readyCalls, lastReg, replaced, relayFailed,
                   dispatchFailed, nDispatch, nEvents, py_obj, coerced,
                   fs_path, fs_files, fs_response, mutex, gdepth>>

LkRun(t, has_ready) ==
    /\ t = "main"
    /\ prog[t] = <<>>
    /\ CanTakeGil(t)
    /\ prog' = [prog EXCEPT ![t] = run_locks(has_ready)]
    /\ UNCHANGED <<registry, gil, pc, regq, loc, out, subscribed, exitReq,
                   runResult, readyCalls, lastReg, replaced, relayFailed,
                   dispatchFailed, nCalls, nDispatch, nEvents, py_obj,
                   coerced, fs_path, fs_files, fs_response, mutex, gdepth>>

LkCommand(t, found) ==
    /\ t = "main"
    /\ TakesRequests(t)
    /\ nDispatch < MaxDispatch
    /\ nDispatch' = nDispatch + 1
    /\ prog' = [prog EXCEPT ![t] = handle_py_command_locks(found) \o prog[t]]
    /\ UNCHANGED <<registry, gil, pc, regq, loc, out, subscribed, exitReq,
                   runResult, readyCalls, lastReg, replaced, relayFailed,
                   dispatchFailed, nCalls, nEvents, py_obj, coerced,
                   fs_path, fs_files, fs_response, mutex, gdepth>>

LkEvent(t, has_listener) ==
    /\ TakesRequests(t)
    /\ nEvents < MaxEvents
    /\ nEvents' = nEvents + 1
    /\ prog' = [prog EXCEPT ![t] = relay_locks(has_listener) \o prog[t]]
    /\ UNCHANGED <<registry, gil, pc, regq, loc, out, subscribed, exitReq,
                   runResult, readyCalls, lastReg, replaced, relayFailed,
                   dispatchFailed, nCalls, nDispatch, py_obj, coerced,
                   fs_path, fs_files, fs_response, mutex, gdepth>>

LkFileRequest(t) ==
    /\ TakesRequests(t)
    /\ nDispatch < MaxDispatch
    /\ nDispatch' = nDispatch + 1
    /\ prog' = [prog EXCEPT ![t] = handle_fs_protocol_locks \o prog[t]]
    /\ UNCHANGED <<registry, gil, pc, regq, loc, out, subscribed, exitReq,
                   runResult, readyCalls, lastReg, replaced, relayFailed,
                   dispatchFailed, nCalls, nEvents, py_obj, coerced,
                   fs_path, fs_files, fs_response, mutex, gdepth>>

\* Python::with_gil, or host code entering a #[pymethods] function
LkAcquireGil(t) ==
    /\ NextIns(t).op \in {"with_gil", "py_enter"}
    /\ CanTakeGil(t)
    /\ gil' = t
    /\ gdepth' = [gdepth EXCEPT ![t] = @ + 1]
    /\ prog' = Pop(t)
    /\ UNCHANGED <<registry, pc, regq, loc, out, subscribed, exitReq,
                   runResult, readyCalls, lastReg, replaced, relayFailed,
                   dispatchFailed, nCalls, nDispatch, nEvents, py_obj,
                   coerced, fs_path, fs_files, fs_response, mutex>>

\* the with_gil block ends, or the #[pymethods] function returns to host code
LkReleaseGil(t) ==
    /\ NextIns(t).op \in {"end_gil", "py_leave"}
    /\ gdepth' = [gdepth EXCEPT ![t] = @ - 1]
    /\ gil' = IF NextIns(t).op = "py_leave" \/ gdepth[t] = 1
              THEN InHostCode ELSE t
    /\ prog' = Pop(t)
    /\ UNCHANGED <<registry, pc, regq, loc, out, subscribed, exitReq,
                   runResult, readyCalls, lastReg, replaced, relayFailed,
                   dispatchFailed, nCalls, nDispatch, nEvents, py_obj,
                   coerced, fs_path, fs_files, fs_response, mutex>>

\* Mutex::lock blocks while the Mutex is held, by whomever
LkLock(t) ==
    /\ NextIns(t).op = "lock"
    /\ mutex[NextIns(t).slot] = NoThread
    /\ mutex' = [mutex EXCEPT ![NextIns(t).slot] = t]
    /\ prog' = Pop(t)
    /\ UNCHANGED <<registry, gil, pc, regq, loc, out, subscribed, exitReq,
                   runResult, readyCalls, lastReg, replaced, relayFailed,
                   dispatchFailed, nCalls, nDispatch, nEvents, py_obj,
                   coerced, fs_path, fs_files, fs_response, gdepth>>

LkUnlock(t) ==
    /\ NextIns(t).op = "unlock"
    /\ mutex' = [mutex EXCEPT ![NextIns(t).slot] = NoThread]
    /\ prog' = Pop(t)
    /\ UNCHANGED <<registry, gil, pc, regq, loc, out, subscribed, exitReq,
                   runResult, readyCalls, lastReg, replaced, relayFailed,
                   dispatchFailed, nCalls, nDispatch, nEvents, py_obj,
                   coerced, fs_path, fs_files, fs_response, gdepth>>

\* call0 / call1 enters the callback: host code runs
LkCallback(t) ==
    /\ NextIns(t).op = "call"
    /\ gil' = InHostCode
    /\ prog' = Pop(t)
    /\ UNCHANGED <<registry, pc, regq, loc, out, subscribed, exitReq,
                   runResult, readyCalls, lastReg, replaced, relayFailed,
                   dispatchFailed, nCalls, nDispatch, nEvents, py_obj,
                   coerced, fs_path, fs_files, fs_response, mutex, gdepth>>

\* the callback returns into the with_gil block
LkReturn(t) ==
    /\ NextIns(t).op = "ret"
    /\ CanTakeGil(t)
    /\ gil' = t
    /\ prog' = Pop(t)
    /\ UNCHANGED <<registry, pc, regq, loc, out, subscribed, exitReq,
                   runResult, readyCalls, lastReg, replaced, relayFailed,
                   dispatchFailed, nCalls, nDispatch, nEvents, py_obj,
                   coerced, fs_path, fs_files, fs_response, mutex, gdepth>>

LockNext ==
    \/ \E t \in Threads, p \in ApiLocks : LkApiCall(t, p)
    \/ \E has_ready \in BOOLEAN : LkRun("main", has_ready)
    \/ \E found \in BOOLEAN : LkCommand("main", found)
    \/ \E t \in Threads, has_listener \in BOOLEAN : LkEvent(t, has_listener)
    \/ \E t \in Threads : LkFileRequest(t)
    \/ \E t \in Threads : LkAcquireGil(t)
    \/ \E t \in Threads : LkReleaseGil(t)
    \/ \E t \in Threads : LkLock(t)
    \/ \E t \in Threads : LkUnlock(t)
    \/ \E t \in Threads : LkCallback(t)
    \/ \E t \in Threads : LkReturn(t)

LockSpec == Init /\ [][LockNext]_vars

(***************************************************************************)
(* Properties.  A step that returns something leaves it in out', so a      *)
(* property of the form [][out'.kind = .. => ..]_vars speaks of every      *)
(* return of the operation, with the state before and after it at hand.    *)
(***************************************************************************)
\* the invocation has no `command` field that is a string
CommandMissing(args) ==
    ~(/\ args.kind = "Object"
      /\ "command" \in DOMAIN args.v
      /\ args.v["command"].kind = "String")

\* no thread enters a callback in this step
NoCallbackEntered ==
    /\ \A u \in Threads : pc'[u] \in PyPcs => pc[u] = pc'[u]
    /\ readyCalls' = readyCalls

\* C1: a dispatch of an invocation whose `command` field is absent or is not
\* a string returns exactly "Missing command name in args", whatever the
\* registry holds; the step invokes no callback and changes no registry slot.
C1_MissingCommand ==
    [][(out'.kind = "resp" /\ CommandMissing(out'.args))
        => /\ out'.res = [ok |-> FALSE, e |-> "Missing command name in args"]
           /\ out'.invoked = None
           /\ NoCallbackEntered
           /\ registry' = registry]_vars

\* C1 happens: the error is returned while handlers are registered
C1_Witness ==
    /\ out.kind = "resp"
    /\ CommandMissing(out.args)
    /\ "a" \in DOMAIN PYCOMMANDS_HANDLER
    /\ READY_CALLBACK # None

\* C2: a dispatch whose `command` is a string N, with no handler registered
\* under N when it is looked up, returns "Command 'N' not registered", invokes
\* no callback (none of the handlers under other names either) and leaves the
\* registry as it was.
C2_NotRegistered ==
    [][(/\ out'.kind = "resp"
        /\ ~CommandMissing(out'.args)
        /\ out'.args.v["command"].v \notin DOMAIN PYCOMMANDS_HANDLER)
        => /\ out'.res =
                [ok |-> FALSE,
                 e |-> "Command '" \o out'.args.v["command"].v
                           \o "' not registered"]
           /\ out'.invoked = None
           /\ NoCallbackEntered
           /\ registry' = registry]_vars

\* C2 happens: "c" is not registered while a handler under "a" is
C2_Witness ==
    /\ out.kind = "resp"
    /\ out.res = [ok |-> FALSE, e |-> "Command 'c' not registered"]
    /\ "a" \in DOMAIN PYCOMMANDS_HANDLER

\* C3: the command table holds, under each name, exactly the handler of the
\* latest registration under that name, and the handler a dispatch invokes is
\* that latest one: at the call it is the table's entry, and the handler that
\* runs and returns is the one that was the latest when it was looked up.
C3_LatestHandlerOnly ==
    /\ DOMAIN PYCOMMANDS_HANDLER = DOMAIN lastReg
    /\ \A n \in DOMAIN lastReg : PYCOMMANDS_HANDLER[n] = lastReg[n]
    /\ \A t \in Threads :
          /\ pc[t] = "d_call" =>
                /\ loc[t].name \in DOMAIN lastReg
                /\ loc[t].handler = lastReg[loc[t].name]
          /\ pc[t] = "handler_body" => loc[t].handler = loc[t].latest
    /\ (out.kind = "resp" /\ out.invoked # None) =>
          /\ out.invoked = out.latest
          /\ HName(out.invoked) = out.args.v["command"].v

\* C3 happens: h2 replaced h1 under "a", and a dispatch of "a" ran h2
C3_Witness ==
    /\ out.kind = "resp"
    /\ out.invoked = "h2"
    /\ "h1" \in replaced

\* C4: a step of register_commands changes no entry of the command table but
\* the one under the __name__ of the handler it is taking, adds no other key,
\* and leaves the ready callback, the event callback, the app handle and the
\* frontend directory as they were.
C4_RegisterFrame ==
    [][(out'.kind = "api" /\ out'.op = "register_commands")
        => LET q == regq[out'.t]
               names == IF q = <<>> THEN {} ELSE {HName(Head(q))}
           IN  /\ \A k \in DOMAIN PYCOMMANDS_HANDLER :
                      k \notin names =>
                          /\ k \in DOMAIN PYCOMMANDS_HANDLER'
                          /\ PYCOMMANDS_HANDLER'[k] = PYCOMMANDS_HANDLER[k]
               /\ DOMAIN PYCOMMANDS_HANDLER' \subseteq
                      (DOMAIN PYCOMMANDS_HANDLER) \cup names
               /\ READY_CALLBACK' = READY_CALLBACK
               /\ LISTENER_CALLBACK' = LISTENER_CALLBACK
               /\ APP_HANDLE' = APP_HANDLE
               /\ FRONTEND_DIR' = FRONTEND_DIR]_vars

\* C4 happens: a registration under "b" returned with the entry under "a"
\* in place
C4_Witness ==
    /\ out.kind = "api"
    /\ out.op = "register_commands"
    /\ out.res = Ok("unit")
    /\ DOMAIN PYCOMMANDS_HANDLER = {"a", "b"}
    /\ lastReg["b"] = "h3"
    /\ regq = [t \in Threads |-> <<>>]

\* C5: registrations by different threads, however their steps interleave,
\* lose nothing: no step removes a name from the command table, and every
\* name that has been registered is in the table.
C5_NoLostKey ==
    [][/\ DOMAIN PYCOMMANDS_HANDLER \subseteq DOMAIN PYCOMMANDS_HANDLER'
       /\ DOMAIN lastReg' \subseteq DOMAIN PYCOMMANDS_HANDLER']_vars

\* C5 happens: py2 registered "a" and returned while main was in the middle of
\* a register_commands call that had registered "b"; both names are there
C5_Witness ==
    /\ out.kind = "api"
    /\ out.op = "register_commands"
    /\ out.t = "py2"
    /\ out.res = Ok("unit")
    /\ regq["main"] # <<>>
    /\ {"a", "b"} \subseteq DOMAIN PYCOMMANDS_HANDLER

\* a thread leaves position p in this step
Leaves(t, p) == pc[t] = p /\ pc'[t] # p

\* C6: a relay in which the event callback raised ends with nothing but the
\* log entry: the registry, the subscription and run's result are as before
\* and the thread is back where it takes events.  From the first failure on
\* the subscription and the event callback stay in place, and every event
\* taken is looked up, found and handed to the registered event callback.
C6_RelayFailureOnlyLogged ==
    [][/\ (out'.kind = "relay" /\ out'.failed) =>
              /\ registry' = registry
              /\ runResult' = runResult
              /\ exitReq' = exitReq
              /\ pc'[out'.t] = Base(out'.t)
       /\ relayFailed' => (subscribed' /\ LISTENER_CALLBACK' # None)
       /\ relayFailed =>
              \A t \in Threads :
                  /\ Leaves(t, "e_lookup") =>
                        /\ pc'[t] = "e_call"
                        /\ loc'[t].cb = LISTENER_CALLBACK
                  /\ Leaves(t, "e_call") =>
                        /\ pc'[t] = "listener_body"
                        /\ loc'[t].cb = loc[t].cb]_vars

\* C6 happens: after a relay in which the callback raised, a later event was
\* delivered to the event callback, which returned
C6_Witness ==
    /\ relayFailed
    /\ out.kind = "relay"
    /\ out.cb # None
    /\ ~out.failed

\* C7: setup_app with a ready callback registered invokes it, and it is
\* invoked at most once; while it runs the app handle is stored, so that no
\* call made meanwhile finds the handle missing, the relay is not subscribed
\* yet, and no event has been taken or is being delivered.
C7_ReadyOnceAfterHandle ==
    [][/\ readyCalls' <= 1
       /\ \A t \in Threads :
              /\ (Leaves(t, "setup") /\ READY_CALLBACK # None) =>
                    /\ pc'[t] = "ready_body"
                    /\ loc'[t].cb = READY_CALLBACK
                    /\ readyCalls' = 1
              /\ pc'[t] = "ready_body" =>
                    /\ APP_HANDLE' = TheAppHandle
                    /\ readyCalls' = 1
                    /\ ~subscribed'
                    /\ nEvents' = 0
                    /\ \A u \in Threads :
                           pc'[u] \notin {"e_lookup", "e_call", "listener_body"}
                    /\ out'.kind = "api" =>
                           /\ ~out'.early
                           /\ out'.res # Err(NotInitialized)]_vars

\* C7 happens: create_window, called by the ready callback, succeeded
C7_Witness ==
    /\ pc["main"] = "ready_body"
    /\ out.kind = "api"
    /\ out.t = "main"
    /\ out.op = "create_window"
    /\ out.res = Ok("unit")
    /\ readyCalls = 1

\* C8, as the specification states it: create_window, emit and close, called
\* while the app handle is not stored, return the not-initialized error.
C8_EarlyCallsFail ==
    (/\ out.kind = "api"
     /\ out.op \in {"create_window", "emit", "close"}
     /\ out.early)
        => out.res = Err(NotInitialized)

\* what the code does: emit and close return Ok(()) before startup
C8_Witness ==
    /\ out.kind = "api"
    /\ out.op \in {"emit", "close"}
    /\ out.early
    /\ out.res = Ok("unit")
    /\ pc["main"] = "py"

\* C9: a dispatch whose handler raised, or returned a value that does not
\* convert, returns an error string that embeds the host's text; the step
\* leaves the registry and run's result as they were and the thread back in
\* the loop.  After such a failure a dispatch of a registered name still finds
\* its handler and calls it.
C9_HandlerFailureIsAnError ==
    [][/\ (out'.kind = "resp" /\ out'.invoked # None /\ ~out'.res.ok) =>
              /\ out'.res.e \in
                     {"Python callback error: " \o HostErrorText,
                      "Failed to convert Python result: " \o ConversionError}
              /\ registry' = registry
              /\ runResult' = runResult
              /\ exitReq' = exitReq
              /\ subscribed' = subscribed
              /\ pc'[out'.t] = Base(out'.t)
       /\ dispatchFailed =>
              \A t \in Threads :
                  /\ (Leaves(t, "d_lookup")
                      /\ loc[t].name \in DOMAIN PYCOMMANDS_HANDLER) =>
                        /\ pc'[t] = "d_call"
                        /\ loc'[t].handler = PYCOMMANDS_HANDLER[loc[t].name]
                  /\ Leaves(t, "d_call") =>
                        /\ pc'[t] = "handler_body"
                        /\ loc'[t].handler = loc[t].handler]_vars

\* C9 happens: after a failed dispatch, a dispatch was served with a value
C9_Witness ==
    /\ dispatchFailed
    /\ out.kind = "resp"
    /\ out.res.ok
    /\ out.invoked # None

\* a step that registers: on_ready, listen, register_commands, or run with
\* its on_ready argument
RegistersCallback ==
    \/ /\ out'.kind = "api"
       /\ out'.op \in {"on_ready", "listen", "register_commands"}
    \/ Leaves("main", "py")

\* C10: no step but a registration changes the ready callback, the event
\* callback or the command table: the lookups of setup_app, of the relay and
\* of dispatch leave every slot holding what it held.
C10_LookupKeepsRegistry ==
    [][~RegistersCallback =>
          /\ READY_CALLBACK' = READY_CALLBACK
          /\ LISTENER_CALLBACK' = LISTENER_CALLBACK
          /\ PYCOMMANDS_HANDLER' = PYCOMMANDS_HANDLER]_vars

\* C10 happens: h1, the only handler ever registered, was dispatched, failed,
\* was dispatched again and served
C10_Witness ==
    /\ out.kind = "resp"
    /\ out.res.ok
    /\ out.invoked = "h1"
    /\ dispatchFailed
    /\ replaced = {}
    /\ DOMAIN lastReg = {"a"}

\* the value has, at some depth, a part that matches none of the rules: an
\* object of no recognised kind, or an int beyond the range of a double
RECURSIVE Uncoercible(_)
Uncoercible(o) ==
    CASE o.kind = "object" -> TRUE
      [] o.kind = "int" -> o.fits = "no"
      [] o.kind = "list" -> \E i \in 1..Len(o.v) : Uncoercible(o.v[i])
      [] o.kind = "dict" -> \E k \in DOMAIN o.v : Uncoercible(o.v[k])
      [] OTHER -> FALSE

\* the structured value of a host value no part of which is uncoercible
RECURSIVE JsonOf(_)
JsonOf(o) ==
    CASE o.kind = "none" -> [kind |-> "Null"]
      [] o.kind = "bool" -> [kind |-> "Bool", v |-> o.v]
      [] o.kind = "int" ->
            [kind |-> "Number",
             v |-> IF o.fits = "i64" THEN o.v ELSE o.v \o ".0"]
      [] o.kind = "float" ->
            IF o.v \in {"nan", "inf", "-inf"} THEN [kind |-> "Null"]
            ELSE [kind |-> "Number", v |-> o.v]
      [] o.kind = "str" -> [kind |-> "String", v |-> o.v]
      [] o.kind = "list" ->
            [kind |-> "Array", v |-> [i \in 1..Len(o.v) |-> JsonOf(o.v[i])]]
      [] o.kind = "dict" ->
            [kind |-> "Object", v |-> [k \in DOMAIN o.v |-> JsonOf(o.v[k])]]

\* C11: pyany_to_json_value returns, for a host value with no uncoercible
\* part, Ok of the structured value its kind gives (a bool a Bool, a
\* non-finite float Null, a list an Array and a mapping an Object of their
\* elements' values), and for a value with an uncoercible part at any depth
\* the conversion error alone, with no list or map beside it.
C11_CoerceFirstMatch ==
    coerced # NoOut =>
        IF Uncoercible(py_obj)
        THEN coerced = [ok |-> FALSE,
                        e |-> "TypeError: Cannot convert Python object to JSON"]
        ELSE coerced = [ok |-> TRUE, v |-> JsonOf(py_obj)]

\* C11 happens: a list that holds, two levels down, an object of no
\* recognised kind was refused as a whole
C11_Witness ==
    /\ py_obj = PyList(<<PyInt("7", "i64"), PyList(<<PyBool(TRUE), PyOpaque>>)>>)
    /\ coerced = Err(ConversionError)

\* the file a request path is mapped to under the directory "dist"
MappedUnderDist ==
    CASE fs_path = <<"/">> -> "dist/index.html"
      [] fs_path = <<"/", "index.html">> -> "dist/index.html"
      [] fs_path = <<"/", "app.js">> -> "dist/app.js"
      [] fs_path = <<"/", "/", "app.js">> -> "dist/app.js"
      [] fs_path = <<"/", "assets", "/">> -> "dist/assets/"
      [] fs_path = <<"/", "..", "/", "secret">> -> "dist/../secret"

\* there is a file at the mapped path, readable or not
MappedFileExists == fs_files[MappedUnderDist] \in {"file", "unreadable"}

NotFound404 == [status |-> "404", body |-> ""]
Found200 == [status |-> "200", body |-> "<" \o MappedUnderDist \o ">"]

\* C12: the responder answers 404 with an empty body when the frontend
\* directory is unset, when there is no file at the mapped path, and when
\* there is one that cannot be read; it answers 200 with the file's bytes when
\* the file at the mapped path can be read; "/" is mapped to index.html.
C12_StaticFiles ==
    fs_response # NoOut =>
        IF FRONTEND_DIR = "dist" /\ fs_files[MappedUnderDist] = "file"
        THEN fs_response = Found200
        ELSE fs_response = NotFound404

\* C12 as the specification states it: 200 with the content whenever the
\* mapped file exists, 404 only when the directory is unset or the file is
\* not there.
C12_AsStated ==
    fs_response # NoOut =>
        IF FRONTEND_DIR = "dist" /\ MappedFileExists
        THEN fs_response = Found200
        ELSE fs_response = NotFound404

\* C12 happens: "/" was answered with the bytes of index.html
C12_Witness ==
    /\ fs_path = <<"/">>
    /\ FRONTEND_DIR = "dist"
    /\ fs_response = [status |-> "200", body |-> "<dist/index.html>"]

\* thread t holds the Mutex of some slot
HoldsRegistryLock(t) == \E sl \in Slots : mutex[sl] = t

\* thread t is about to acquire the interpreter lock
AcquiresGilNext(t) == NextIns(t).op \in {"with_gil", "py_enter", "ret"}

\* C13: a thread that is about to acquire the interpreter lock (with_gil, a
\* call from host code into the bridge, the return from a callback) holds
\* the Mutex of no registry slot.
C13_NoGilUnderRegistryLock ==
    \A t \in Threads : AcquiresGilNext(t) => ~HoldsRegistryLock(t)

\* C13 happens: a native thread waits for the interpreter lock while the
\* loop's thread, inside with_gil, holds the Mutex of the command table
C13_Witness ==
    /\ NextIns("worker").op = "with_gil"
    /\ gil = "main"
    /\ mutex["PYCOMMANDS_HANDLER"] = "main"
    /\ gdepth["main"] = 2

\* C14, as the specification states it: a thread that is about to lock the
\* Mutex of a registry slot does not hold the interpreter lock.
C14_AsStated ==
    \A t \in Threads : NextIns(t).op = "lock" => gdepth[t] = 0

\* C14: the interpreter lock comes first and the registry lock second.  A
\* thread locks the Mutex of a callback slot only while it holds the
\* interpreter lock; and while a thread holds the Mutex of any slot, all it
\* does next is unlock it: it acquires or releases no interpreter lock, takes
\* no second Mutex and calls no callback.
C14_GilBeforeRegistryLock ==
    \A t \in Threads :
        /\ (NextIns(t).op = "lock" /\ NextIns(t).slot \in CallbackSlots) =>
              (gdepth[t] > 0 /\ gil = t)
        /\ \A sl \in Slots :
              mutex[sl] = t => NextIns(t) = [op |-> "unlock", slot |-> sl]

\* C14 happens: host code running inside a callback of the loop's thread has
\* called a registration, which holds the interpreter lock (the lock of run,
\* of the with_gil around the callback, and of the call itself) and is about
\* to lock the Mutex of the command table
C14_Witness ==
    /\ NextIns("main") = [op |-> "lock", slot |-> "PYCOMMANDS_HANDLER"]
    /\ gdepth["main"] = 3
    /\ gil = "main"

\* C15, as the specification states it: a command dispatch or a relay that
\* has started gets the interpreter lock and comes to its end, whichever
\* thread runs it and whatever the thread that called run is doing.
C15_StartedWorkCompletes ==
    \A t \in Threads :
        (pc[t] \in {"d_lookup", "e_lookup"}) ~> (pc[t] = Base(t))

\* what the code does: a native thread has taken an event and waits for the
\* interpreter lock, which the thread that called run keeps while it sits in
\* the native loop
C15_Witness ==
    /\ pc["worker"] = "e_lookup"
    /\ pc["main"] = "loop"
    /\ gil = "main"
    /\ ~CanTakeGil("worker")

\* C16, as the specification states it: once a ready callback is stored, no
\* step changes the stored callback.
C16_ReadySetOnce ==
    [][READY_CALLBACK # None => READY_CALLBACK' = READY_CALLBACK]_vars

\* what the code does: the slot held r2 when setup_app looked it up and
\* called it, and an on_ready call made since has put r1 in its place
C16_Witness ==
    /\ pc["main"] = "ready_body"
    /\ loc["main"].cb = "r2"
    /\ out.kind = "api"
    /\ out.op = "on_ready"
    /\ READY_CALLBACK = "r1"

\* thread t comes to position p in this step
Enters(t, p) == pc[t] # p /\ pc'[t] = p

\* C17: an event is delivered at most once, to the event callback that the
\* relay's lookup finds: a thread takes an event only when it is free, looks
\* the callback up once, calls what it found once and is free again; an
\* event whose lookup finds no callback is dropped there and then.
C17_DeliveredOnceAtLookup ==
    [][\A t \in Threads :
        /\ Enters(t, "e_lookup") =>
              (pc[t] = Base(t) /\ nEvents' = nEvents + 1)
        /\ Leaves(t, "e_lookup") =>
              IF LISTENER_CALLBACK = None
              THEN /\ pc'[t] = Base(t)
                   /\ out'.kind = "relay"
                   /\ out'.cb = None
              ELSE /\ pc'[t] = "e_call"
                   /\ loc'[t].cb = LISTENER_CALLBACK
        /\ Enters(t, "e_call") => pc[t] = "e_lookup"
        /\ Leaves(t, "e_call") =>
              (pc'[t] = "listener_body" /\ loc'[t].cb = loc[t].cb)
        /\ Enters(t, "listener_body") => pc[t] = "e_call"
        /\ Leaves(t, "listener_body") =>
              /\ pc'[t] = Base(t)
              /\ out'.kind = "relay"
              /\ out'.cb = loc[t].cb
              /\ loc'[t].cb = None]_vars

\* C17 as the specification states it: the event goes to the callback that
\* was registered when it was received, and is dropped if none was.
C17_AsStated == out.kind = "relay" => out.cb = out.rcv

\* C17 happens: an event received while l1 was registered was delivered to
\* l2, which a listen call registered before the relay got to its lookup
C17_Witness ==
    /\ out.kind = "relay"
    /\ out.rcv = "l1"
    /\ out.cb = "l2"

\* C18: a dispatch that succeeds returns Some(value), never the absent
\* result; for a handler that returned the host None it returns Some(Null).
C18_SuccessIsPresent ==
    /\ (out.kind = "resp" /\ out.res.ok) =>
          /\ out.res.v.some
          /\ out.res.v.val.kind \in
                 {"Null", "Bool", "Number", "String", "Array", "Object"}
    /\ \A o \in HandlerOutcomes :
          /\ DispatchResult(o).ok => DispatchResult(o).v.some
          /\ (~o.raised /\ o.value = [kind |-> "none"]) =>
                DispatchResult(o) =
                    [ok |-> TRUE,
                     v |-> [some |-> TRUE, val |-> [kind |-> "Null"]]]

\* C18 happens: a handler returned None and the dispatch answered Some(Null)
C18_Witness ==
    /\ out.kind = "resp"
    /\ out.invoked # None
    /\ out.res = Ok(SomeV(JNull))

\* C19: register_commands registers handler by handler in list order and is
\* not atomic: a turn on a handler without a usable name returns the error,
\* changes no entry (earlier registrations of the call stay) and leaves no
\* handler of the list to be registered; a turn on a named handler registers
\* exactly that handler and goes on with the rest of the list.
C19_HandlerByHandler ==
    [][\A t \in Threads :
          (regq[t] # <<>> /\ regq'[t] # regq[t]) =>
              LET handler == Head(regq[t])
              IN  IF HName(handler) = None
                  THEN /\ out'.kind = "api"
                       /\ out'.op = "register_commands"
                       /\ ~out'.res.ok
                       /\ PYCOMMANDS_HANDLER' = PYCOMMANDS_HANDLER
                       /\ regq'[t] = <<>>
                  ELSE /\ out'.res.ok
                       /\ regq'[t] = Tail(regq[t])
                       /\ DOMAIN PYCOMMANDS_HANDLER' =
                              DOMAIN PYCOMMANDS_HANDLER \cup {HName(handler)}
                       /\ \A n \in DOMAIN PYCOMMANDS_HANDLER' :
                              PYCOMMANDS_HANDLER'[n] =
                                  IF n = HName(handler) THEN handler
                                  ELSE PYCOMMANDS_HANDLER[n]]_vars

\* C19 happens: the call with <<h3, hx, h1>> failed at hx; h3 is registered
\* under "b" and h1 was never registered under "a"
C19_Witness ==
    /\ out.kind = "api"
    /\ out.op = "register_commands"
    /\ ~out.res.ok
    /\ regq[out.t] = <<>>
    /\ DOMAIN PYCOMMANDS_HANDLER = {"b"}
    /\ PYCOMMANDS_HANDLER["b"] = "h3"
====
